---- MODULE Spec2Model ----
(***************************************************************************)
(* Orbit ranking engine: a collection of items, the interaction recorder,  *)
(* the lifecycle classifier and rankItems.                                 *)
(*                                                                         *)
(* JavaScript objects that the engine writes in place (the four histogram  *)
(* objects of an item's signals) live in `heap` and are held by reference; *)
(* item and signals objects are only ever copied by spread, so they are    *)
(* plain records.  Timestamps are whole hours since the epoch; scores are  *)
(* thousandths.                                                            *)
(*                                                                         *)
(* Spec is the store with the recorder and rankItems; SpecMutators adds    *)
(* pin, unpin and quiet; SpecGrowth observes one item many times;          *)
(* SpecClassifier, SpecScorer and SpecDecay apply computeState, the scorer *)
(* and decayHistogram to sampled inputs.  SpecCompress, SpecWindow and     *)
(* SpecMigrate apply compressHistogram, applyRollingWindow and             *)
(* migrateToCompressed; SpecClock makes the same calls at two readings of  *)
(* the wall clock.  SpecReminder is the surface's reminder timer,          *)
(* SpecAudio the ambient music of useAudio, SpecStorage the two backends   *)
(* of the storage module.                                                  *)
(***************************************************************************)
EXTENDS Integers, Sequences, FiniteSets, TLC

VARIABLES heap, items, context, call, log, steps

vars == <<heap, items, context, call, log, steps>>

\* ------------------------------------------------------------------ bounds
MaxItems == 2
MaxSteps == 4
MaxVisibleArg == 2
\* calls of recordInteraction on one item in SpecGrowth
MaxCalls == 21
\* steps of SpecWindow: calls of applyRollingWindow and waits between them
MaxWindowSteps == 5
\* steps of SpecClock: calls of the core's functions and ticks of the clock
MaxClockSteps == 3
\* steps of SpecReminder: timer callbacks, clock ticks, unmounts and mounts
MaxReminderSteps == 8
\* presses of the music toggle in SpecAudio
MaxToggles == 3
\* calls of storage.get and storage.set in SpecStorage
MaxStorageSteps == 3
\* calls of compressHistogram on one histogram in SpecCompress
MaxCompressions == 4

\* --------------------------------------------------------------- constants
\* JS null / undefined (both falsy) for a timestamp, a counter or a reference
NULL == -1
NOVELTY_HOURS == 24
DECAY_THRESHOLD_DAYS == 7
IGNORED_STREAK_THRESHOLD == 5
\* scores are kept in thousandths: 1000 is the score 1.0
SCALE == 1000
BASE_SCORE == 500
NOVELTY_BOOST == 200
PIN_BOOST == 300
\* the most one histogram dimension, recency and frequency can each add
AFFINITY_BOOST == 50
RECENCY_BOOST == 100
FREQUENCY_BOOST == 100
\* DECAY_FACTOR = 0.95, in hundredths
DECAY_FACTOR == 95
\* the histogram utilities work on fractional weights: there a weight is kept in
\* ten-thousandths (10000 is the weight 1) and a factor in hundredths
WEIGHT_ONE == 10000
\* newValue >= 0.01
KEEP_THRESHOLD == 100
DEFAULT_WINDOW_DAYS == 30
HOURS_PER_DAY == 24
\* the waits between two calls of applyRollingWindow: half a day, a day
WindowDeltas == {12, 24}
\* migrateToCompressed caps the raw counts at maxValue
maxValue == 100
\* newObservation = null; histogram keys are strings
NULL_KEY == "null"

Places == {"work", "home"}
Devices == {"desktop", "mobile"}
Actions == {"seen", "opened", "dismissed"}
Deltas == {1, 24}
\* the time at which sampled inputs are classified and scored: day 8, 8 o'clock
SampleNow == 8 * 24 + 8
\* quiet(id, hours) as the surface calls it, and a shorter one
QuietHours == {1, 4}
\* hours from now at which a pin with an expiry runs out
PinHours == {2}
\* hours * 60 * 60 * 1000
MS_PER_HOUR == 60 * 60 * 1000

Min(a, b) == IF a < b THEN a ELSE b
Max(a, b) == IF a > b THEN a ELSE b

\* ------------------------------------------------------------- JS helpers
\* x || 0
Or0(x) == IF x = NULL THEN 0 ELSE x

\* new Date(t).getHours() and .getDay(), t in hours since 1970-01-01 (a Thursday)
getHours(t) == t % 24
getDay(t) == ((t \div 24) + 4) % 7

\* new Date(iso).getTime(), in milliseconds, and new Date(ms).toISOString()
getTime(t) == t * MS_PER_HOUR
toISOString(ms) == ms \div MS_PER_HOUR

\* {}
EmptyHistogram == [k \in {} |-> 0]

\* h[k] || 0
Weight(h, k) == IF k \in DOMAIN h THEN h[k] ELSE 0

\* h[k] = v
Put(h, k, v) == [x \in (DOMAIN h) \cup {k} |-> IF x = k THEN v ELSE h[x]]

\* the object a histogram reference points at (an absent histogram reads as {})
Deref(hp, ref) == IF ref = NULL THEN EmptyHistogram ELSE hp[ref]

\* everything observable through an item: its own fields and the contents of
\* the histogram objects it references
View(hp, item) ==
  [item |-> item,
   hourHistogram |-> Deref(hp, item.signals.hourHistogram),
   dayHistogram |-> Deref(hp, item.signals.dayHistogram),
   placeHistogram |-> Deref(hp, item.signals.placeHistogram),
   deviceHistogram |-> Deref(hp, item.signals.deviceHistogram)]

\* ------------------------------------------------------------ item creation
\* createItem(title): counters 0, never seen, four fresh empty histograms
createItem(hp, id, now) ==
  [heap |-> hp \o <<EmptyHistogram, EmptyHistogram, EmptyHistogram, EmptyHistogram>>,
   item |-> [id |-> id,
             signals |-> [createdAt |-> now, lastSeenAt |-> NULL,
                          seenCount |-> 0, openedCount |-> 0, dismissedCount |-> 0,
                          ignoredStreak |-> 0, isPinned |-> FALSE, pinUntil |-> NULL,
                          quietUntil |-> NULL, isRemoved |-> FALSE,
                          hourHistogram |-> Len(hp) + 1, dayHistogram |-> Len(hp) + 2,
                          placeHistogram |-> Len(hp) + 3, deviceHistogram |-> Len(hp) + 4],
             computed |-> [score |-> 0, distance |-> SCALE, reasons |-> <<>>,
                           updatedAt |-> now]]]

\* an item persisted by an older version: counters and histograms are missing
legacyItem(hp, id, now) ==
  [heap |-> hp,
   item |-> [id |-> id,
             signals |-> [createdAt |-> now, lastSeenAt |-> NULL,
                          seenCount |-> NULL, openedCount |-> NULL, dismissedCount |-> NULL,
                          ignoredStreak |-> NULL, isPinned |-> FALSE, pinUntil |-> NULL,
                          quietUntil |-> NULL, isRemoved |-> FALSE,
                          hourHistogram |-> NULL, dayHistogram |-> NULL,
                          placeHistogram |-> NULL, deviceHistogram |-> NULL],
             computed |-> [score |-> 0, distance |-> SCALE, reasons |-> <<>>,
                           updatedAt |-> now]]]

\* ------------------------------------------------------- lifecycle classifier
\* `now` is the value new Date() has when the context is built
createStateContext(signals, isRemoved, now) ==
  [now |-> now, createdAt |-> signals.createdAt, lastSeenAt |-> signals.lastSeenAt,
   quietUntil |-> signals.quietUntil, ignoredStreak |-> Or0(signals.ignoredStreak),
   isRemoved |-> isRemoved]

\* variant of computeState: the quiet check comes before the removal check
computeStateQuietFirst(ctx) ==
  IF ctx.quietUntil # NULL /\ ctx.quietUntil > ctx.now THEN "quieted"
  ELSE IF ctx.isRemoved THEN "archived"
  ELSE IF ctx.now - ctx.createdAt < NOVELTY_HOURS THEN "new"
  ELSE IF ctx.ignoredStreak >= IGNORED_STREAK_THRESHOLD THEN "decaying"
  ELSE IF ctx.lastSeenAt # NULL /\ ctx.now - ctx.lastSeenAt > DECAY_THRESHOLD_DAYS * 24
       THEN "decaying"
  ELSE "active"

\* variant of computeState: novelty is looked at before the quiet period
computeStateNoveltyFirst(ctx) ==
  IF ctx.isRemoved THEN "archived"
  ELSE IF ctx.now - ctx.createdAt < NOVELTY_HOURS THEN "new"
  ELSE IF ctx.quietUntil # NULL /\ ctx.quietUntil > ctx.now THEN "quieted"
  ELSE IF ctx.ignoredStreak >= IGNORED_STREAK_THRESHOLD THEN "decaying"
  ELSE IF ctx.lastSeenAt # NULL /\ ctx.now - ctx.lastSeenAt > DECAY_THRESHOLD_DAYS * 24
       THEN "decaying"
  ELSE "active"

computeState(ctx) ==
  IF ctx.isRemoved THEN "archived"
  ELSE IF ctx.quietUntil # NULL /\ ctx.quietUntil > ctx.now THEN "quieted"
  ELSE IF ctx.now - ctx.createdAt < NOVELTY_HOURS THEN "new"
  ELSE IF ctx.ignoredStreak >= IGNORED_STREAK_THRESHOLD THEN "decaying"
  ELSE IF ctx.lastSeenAt # NULL /\ ctx.now - ctx.lastSeenAt > DECAY_THRESHOLD_DAYS * 24
       THEN "decaying"
  ELSE "active"

\* variant of getStateScoreMultiplier: a quieted item is hidden altogether
getStateScoreMultiplierHidesQuieted(state) ==
  CASE state = "new" -> 12
    [] state = "active" -> 10
    [] state = "quieted" -> 0
    [] state = "decaying" -> 5
    [] state = "archived" -> 0

\* multiplier in tenths
getStateScoreMultiplier(state) ==
  CASE state = "new" -> 12
    [] state = "active" -> 10
    [] state = "quieted" -> 1
    [] state = "decaying" -> 5
    [] state = "archived" -> 0

States == {"new", "active", "quieted", "decaying", "archived"}

getValidTransitions(state) ==
  CASE state = "new" -> {"active", "quieted", "archived"}
    [] state = "active" -> {"quieted", "decaying", "archived"}
    [] state = "quieted" -> {"active", "decaying", "archived"}
    [] state = "decaying" -> {"active", "archived"}
    [] state = "archived" -> {}

canTransition(from, to) == to \in getValidTransitions(from)

\* ---------------------------------------------------------- relevance scorer
scoreToDistance(score) == SCALE - score

isNovel(item, ctx) == ctx.now - item.signals.createdAt < NOVELTY_HOURS

pinActive(item, ctx) ==
  item.signals.isPinned
  /\ (item.signals.pinUntil = NULL \/ item.signals.pinUntil > ctx.now)

quietActive(item, ctx) ==
  item.signals.quietUntil # NULL /\ item.signals.quietUntil > ctx.now

\* min(ignoredStreak * 0.1, 0.5)
streakDecay(item) == Min(Or0(item.signals.ignoredStreak) * 100, 500)

\* Object.values(histogram).reduce((sum, val) => sum + val, 0)
RECURSIVE SumOver(_, _)
SumOver(h, keys) ==
  IF keys = {} THEN 0
  ELSE LET k == CHOOSE x \in keys : TRUE
       IN h[k] + SumOver(h, keys \ {k})

getHistogramTotal(h) == SumOver(h, DOMAIN h)

\* count / total, in thousandths; 0 for a histogram without weight
calculateAffinity(h, key) ==
  LET count == Weight(h, key)
      total == getHistogramTotal(h)
  IN IF total > 0 THEN (count * SCALE) \div total ELSE 0

\* the share of the current place in the place histogram, read through the
\* reference the item holds
placeAffinity(item, ctx) ==
  calculateAffinity(Deref(heap, item.signals.placeHistogram), ctx.place)

\* a boost proportional to the affinity of each of the four dimensions
affinityBoost(item, ctx) ==
  (AFFINITY_BOOST
     * (calculateAffinity(Deref(heap, item.signals.hourHistogram), getHours(ctx.now))
        + calculateAffinity(Deref(heap, item.signals.dayHistogram), getDay(ctx.now))
        + placeAffinity(item, ctx)
        + calculateAffinity(Deref(heap, item.signals.deviceHistogram), ctx.device)))
  \div SCALE

\* falls from RECENCY_BOOST at the moment of the sighting to 0 a week later
recencyBoost(item, ctx) ==
  IF item.signals.lastSeenAt = NULL THEN 0
  ELSE LET week == DECAY_THRESHOLD_DAYS * 24
           since == Max(0, ctx.now - item.signals.lastSeenAt)
       IN (RECENCY_BOOST * Max(0, week - since)) \div week

\* saturating in seenCount + 2 * openedCount
frequencyBoost(item) ==
  LET n == Or0(item.signals.seenCount) + 2 * Or0(item.signals.openedCount)
  IN (FREQUENCY_BOOST * n) \div (n + 10)

oftenSeenAt(place) == IF place = "work" THEN "often seen at work" ELSE "often seen at home"

\* additive boosts, then the quiet dampener, then the lifecycle multiplier, then
\* the clamp to [0, 1]
computeRelevance(item, ctx) ==
  LET additive == BASE_SCORE
                  + (IF isNovel(item, ctx) THEN NOVELTY_BOOST ELSE 0)
                  + (IF pinActive(item, ctx) THEN PIN_BOOST ELSE 0)
                  + affinityBoost(item, ctx)
                  + recencyBoost(item, ctx)
                  + frequencyBoost(item)
                  - streakDecay(item)
      quieted == IF quietActive(item, ctx) THEN additive \div 10 ELSE additive
      state == computeState(createStateContext(item.signals, item.signals.isRemoved, ctx.now))
      scaled == (quieted * getStateScoreMultiplier(state)) \div 10
  IN [score |-> Max(0, Min(SCALE, scaled)),
      reasons |-> (IF isNovel(item, ctx) THEN <<"newly added">> ELSE <<>>)
                  \o (IF pinActive(item, ctx) THEN <<"pinned">> ELSE <<>>)
                  \o (IF quietActive(item, ctx) THEN <<"quieted">> ELSE <<>>)
                  \o (IF 2 * placeAffinity(item, ctx) > SCALE
                      THEN <<oftenSeenAt(ctx.place)>> ELSE <<>>)
                  \o (IF 2 * recencyBoost(item, ctx) > RECENCY_BOOST
                      THEN <<"recently on your mind">> ELSE <<>>)
                  \o (IF ~isNovel(item, ctx) /\ streakDecay(item) > 300
                      THEN <<"fading from focus">> ELSE <<>>)]

\* ------------------------------------------------------------------ rankItems
\* variant of scoreItem: the score itself is stored as the distance
scoreItemDistanceIsScore(item, ctx) ==
  LET r == computeRelevance(item, ctx)
  IN [item EXCEPT !.computed = [score |-> r.score,
                                distance |-> r.score,
                                reasons |-> r.reasons,
                                updatedAt |-> ctx.now]]

\* items.map(item => ({...item, computed: {...}}))
scoreItem(item, ctx) ==
  LET r == computeRelevance(item, ctx)
  IN [item EXCEPT !.computed = [score |-> r.score,
                                distance |-> scoreToDistance(r.score),
                                reasons |-> r.reasons,
                                updatedAt |-> ctx.now]]

\* the comparator (a, b) => b.computed.score - a.computed.score
compareScore(a, b) == b.computed.score - a.computed.score

\* variant of insertSorted: an unstable insertion, x goes in front of its ties
insertSortedUnstable(sorted, x) ==
  LET n == Cardinality({j \in 1..Len(sorted) : compareScore(sorted[j], x) < 0})
  IN SubSeq(sorted, 1, n) \o <<x>> \o SubSeq(sorted, n + 1, Len(sorted))

\* one step of the stable sort: x, which followed every element of `sorted` in
\* the array, goes behind every element the comparator does not put after it
insertSorted(sorted, x) ==
  LET n == Cardinality({j \in 1..Len(sorted) : compareScore(sorted[j], x) <= 0})
  IN SubSeq(sorted, 1, n) \o <<x>> \o SubSeq(sorted, n + 1, Len(sorted))

RECURSIVE sortItems(_)
sortItems(arr) ==
  IF arr = <<>> THEN <<>>
  ELSE insertSorted(sortItems(SubSeq(arr, 1, Len(arr) - 1)), arr[Len(arr)])

\* variant of slice: the end index is taken inclusive
sliceInclusive(arr, maxVisible) == SubSeq(arr, 1, Min(maxVisible + 1, Len(arr)))

\* scored.slice(0, maxVisible), maxVisible a non-negative integer
slice(arr, maxVisible) == SubSeq(arr, 1, Min(maxVisible, Len(arr)))

\* variant of rankItems: computed is attached to the input items and the input
\* array itself is sorted
rankItemsInPlace(coll, ctx, maxVisible) ==
  LET scored == [i \in 1..Len(coll) |-> scoreItem(coll[i], ctx)]
      sorted == sortItems(scored)
  IN [items |-> sorted, all |-> sorted, visible |-> slice(sorted, maxVisible)]

\* `items` is the caller's array as the call leaves it
rankItems(coll, ctx, maxVisible) ==
  LET scored == [i \in 1..Len(coll) |-> scoreItem(coll[i], ctx)]
      sorted == sortItems(scored)
  IN [items |-> coll, all |-> sorted, visible |-> slice(sorted, maxVisible)]

\* ---------------------------------------------------------- recordInteraction
\* variant of onSeen: the ignored streak survives a `seen`
onSeenKeepsStreak(signals, ctx) ==
  [signals EXCEPT !.seenCount = Or0(@) + 1,
                  !.lastSeenAt = ctx.now]

\* action === 'seen'
onSeen(signals, ctx) ==
  [signals EXCEPT !.seenCount = Or0(@) + 1,
                  !.lastSeenAt = ctx.now,
                  !.ignoredStreak = 0]

\* variant of onOpened: the ignored streak survives an `opened`
onOpenedKeepsStreak(signals, ctx) ==
  [signals EXCEPT !.openedCount = Or0(@) + 1,
                  !.lastSeenAt = ctx.now]

\* action === 'opened'
onOpened(signals, ctx) ==
  [signals EXCEPT !.openedCount = Or0(@) + 1,
                  !.lastSeenAt = ctx.now,
                  !.ignoredStreak = 0]

\* variant of onDismissed: a dismissal counts as a sighting too
onDismissedCountsAsSeen(signals) ==
  [signals EXCEPT !.dismissedCount = Or0(@) + 1,
                  !.seenCount = Or0(@) + 1,
                  !.ignoredStreak = Or0(@) + 1]

\* action === 'dismissed'
onDismissed(signals) ==
  [signals EXCEPT !.dismissedCount = Or0(@) + 1,
                  !.ignoredStreak = Or0(@) + 1]

\* the counter branch of recordInteraction, on the spread copy of item.signals
updateCounters(signals, action, ctx) ==
  IF action = "seen" THEN onSeen(signals, ctx)
  ELSE IF action = "opened" THEN onOpened(signals, ctx)
  ELSE IF action = "dismissed" THEN onDismissed(signals)
  ELSE signals

\* signals.f = signals.f || {};  signals.f[key] = (signals.f[key] || 0) + 1
\* st = [heap, signals]; the copy of signals still references the histogram
\* objects of the input item, so the write lands in the shared object
bumpHistogram(st, field, key) ==
  LET fresh == st.signals[field] = NULL
      ref == IF fresh THEN Len(st.heap) + 1 ELSE st.signals[field]
      hp == IF fresh THEN Append(st.heap, EmptyHistogram) ELSE st.heap
  IN [heap |-> [hp EXCEPT ![ref] = Put(@, key, Weight(@, key) + 1)],
      signals |-> [st.signals EXCEPT ![field] = ref]]

\* variant of recordInteraction: a dismissal is not entered in the histograms
recordInteractionEngagedOnly(hp, item, action, ctx) ==
  LET s0 == [heap |-> hp, signals |-> updateCounters(item.signals, action, ctx)]
      s1 == bumpHistogram(s0, "hourHistogram", getHours(ctx.now))
      s2 == bumpHistogram(s1, "dayHistogram", getDay(ctx.now))
      s3 == bumpHistogram(s2, "placeHistogram", ctx.place)
      s4 == bumpHistogram(s3, "deviceHistogram", ctx.device)
      out == IF action = "dismissed" THEN s0 ELSE s4
  IN [heap |-> out.heap, item |-> [item EXCEPT !.signals = out.signals]]

recordInteraction(hp, item, action, ctx) ==
  LET s0 == [heap |-> hp, signals |-> updateCounters(item.signals, action, ctx)]
      s1 == bumpHistogram(s0, "hourHistogram", getHours(ctx.now))
      s2 == bumpHistogram(s1, "dayHistogram", getDay(ctx.now))
      s3 == bumpHistogram(s2, "placeHistogram", ctx.place)
      s4 == bumpHistogram(s3, "deviceHistogram", ctx.device)
  IN [heap |-> s4.heap, item |-> [item EXCEPT !.signals = s4.signals]]

\* ------------------------------------------------------ pin, unpin and quiet
\* each returns the object handed in as the call leaves it (`item`) and the
\* object it returns (`result`)

\* variant of pinItem: the expiry is dropped
pinItemForever(item, until) ==
  [item |-> item,
   result |-> [item EXCEPT !.signals.isPinned = TRUE, !.signals.pinUntil = NULL]]

\* until = null when no expiry is passed
pinItem(item, until) ==
  [item |-> item,
   result |-> [item EXCEPT !.signals.isPinned = TRUE, !.signals.pinUntil = until]]

\* variant of unpinItem: the expiry is left in place
unpinItemKeepsExpiry(item) ==
  [item |-> item,
   result |-> [item EXCEPT !.signals.isPinned = FALSE]]

unpinItem(item) ==
  [item |-> item,
   result |-> [item EXCEPT !.signals.isPinned = FALSE, !.signals.pinUntil = NULL]]

\* variant of quietItem: quieting also counts towards the ignored streak
quietItemCountsStreak(item, hours, ctx) ==
  [item |-> item,
   result |-> [item EXCEPT
                 !.signals.quietUntil = toISOString(getTime(ctx.now) + hours * MS_PER_HOUR),
                 !.signals.dismissedCount = Or0(@) + 1,
                 !.signals.ignoredStreak = Or0(@) + 1]]

quietItem(item, hours, ctx) ==
  [item |-> item,
   result |-> [item EXCEPT
                 !.signals.quietUntil = toISOString(getTime(ctx.now) + hours * MS_PER_HOUR),
                 !.signals.dismissedCount = Or0(@) + 1]]

\* --------------------------------------------------------- histogram utilities
\* value * factor, cut to the ten-thousandth
times(value, factor) == (value * factor) \div 100

\* variant of decayHistogram: only products above the threshold are kept
decayHistogramAboveOnly(hp, ref, factor) ==
  LET h == hp[ref]
      kept == {k \in DOMAIN h : times(h[k], factor) > KEEP_THRESHOLD}
  IN [heap |-> Append(hp, [k \in kept |-> times(h[k], factor)]),
      ref |-> Len(hp) + 1]

\* variant of decayHistogram: a product below the threshold is raised to it
decayHistogramFloored(hp, ref, factor) ==
  LET h == hp[ref]
  IN [heap |-> Append(hp, [k \in DOMAIN h |-> Max(KEEP_THRESHOLD, times(h[k], factor))]),
      ref |-> Len(hp) + 1]

\* the histogram at `ref` is read, the decayed one is a new object
decayHistogram(hp, ref, factor) ==
  LET h == hp[ref]
      kept == {k \in DOMAIN h : times(h[k], factor) >= KEEP_THRESHOLD}
  IN [heap |-> Append(hp, [k \in kept |-> times(h[k], factor)]),
      ref |-> Len(hp) + 1]

\* {...histogram, [key]: (histogram[key] || 0) + amount}, a new object
addToHistogram(hp, ref, key, amount) ==
  [heap |-> Append(hp, Put(hp[ref], key, Weight(hp[ref], key) + amount)),
   ref |-> Len(hp) + 1]

\* Math.round(value * 100) / 100: to the nearest hundredth, a half goes up
round2(value) == ((value + 50) \div 100) * 100

\* variant of compressHistogram: the weights are not rounded
compressHistogramUnrounded(hp, ref, newObservation) ==
  LET d == decayHistogram(hp, ref, DECAY_FACTOR)
  IN IF newObservation # NULL_KEY
     THEN addToHistogram(d.heap, d.ref, newObservation, WEIGHT_ONE)
     ELSE d

\* decay, then the new observation, then the rounding into a new object
compressHistogram(hp, ref, newObservation) ==
  LET d == decayHistogram(hp, ref, DECAY_FACTOR)
      c == IF newObservation # NULL_KEY
           THEN addToHistogram(d.heap, d.ref, newObservation, WEIGHT_ONE)
           ELSE d
      compressed == c.heap[c.ref]
  IN [heap |-> Append(c.heap, [k \in DOMAIN compressed |-> round2(compressed[k])]),
      ref |-> Len(c.heap) + 1]

\* {values, total, lastUpdated: new Date().toISOString(), windowDays}; values is
\* the reference it was given and now is what new Date() reads
createCompressedHistogram(hp, values, windowDays, now) ==
  [values |-> values,
   total |-> getHistogramTotal(hp[values]),
   lastUpdated |-> toISOString(getTime(now)),
   windowDays |-> windowDays]

\* Math.floor((now.getTime() - lastUpdated.getTime()) / (1000 * 60 * 60 * 24))
decayIterations(histogram, now) ==
  (getTime(now) - getTime(histogram.lastUpdated)) \div (HOURS_PER_DAY * MS_PER_HOUR)

\* for (i = 0; i < n; i++) values = decayHistogram(values)
RECURSIVE decayLoop(_, _, _)
decayLoop(hp, values, n) ==
  IF n <= 0 THEN [heap |-> hp, ref |-> values]
  ELSE LET d == decayHistogram(hp, values, DECAY_FACTOR)
       IN decayLoop(d.heap, d.ref, n - 1)

\* one decay for each whole day since lastUpdated, then a new record dated now
applyRollingWindow(hp, histogram, now) ==
  LET d == decayLoop(hp, histogram.values, decayIterations(histogram, now))
  IN [heap |-> d.heap,
      result |-> createCompressedHistogram(d.heap, d.ref, histogram.windowDays, now)]

\* ---- IEEE 754 double precision, as far as migrateToCompressed needs it
\* a positive double is [bits, exp]: bits are the 53 bits of the significand,
\* the first of them 1, and the value is 1.b2...b53 (binary) * 2^exp; zero has
\* no bits
MANTISSA_BITS == 53

ZERO == [bits |-> <<>>, exp |-> 0]

\* n more quotient bits of r / s for a remainder r < s, after the bits so far,
\* and whether a remainder is left after them
RECURSIVE quotientBits(_, _, _, _)
quotientBits(r, s, n, bits) ==
  IF n = 0 THEN [bits |-> bits, sticky |-> r # 0]
  ELSE IF 2 * r >= s THEN quotientBits(2 * r - s, s, n - 1, Append(bits, 1))
  ELSE quotientBits(2 * r, s, n - 1, Append(bits, 0))

\* the exponent of r / s: r is doubled until s <= r < 2s
RECURSIVE normalise(_, _, _)
normalise(r, s, e) ==
  IF r >= s THEN [r |-> r, exp |-> e] ELSE normalise(2 * r, s, e - 1)

\* the bits of a natural number, the highest first; none for 0
RECURSIVE toBits(_)
toBits(n) == IF n = 0 THEN <<>> ELSE toBits(n \div 2) \o <<n % 2>>

\* the value of a run of bits
RECURSIVE fromBits(_)
fromBits(bits) ==
  IF bits = <<>> THEN 0
  ELSE 2 * fromBits(SubSeq(bits, 1, Len(bits) - 1)) + bits[Len(bits)]

\* round to nearest, ties to even: bits holds the exact result from its leading
\* 1 on, sticky says that more of it lies beyond bits
roundToDouble(bits, sticky, exp) ==
  LET n == MANTISSA_BITS
      m == [i \in 1..n |-> IF i <= Len(bits) THEN bits[i] ELSE 0]
      guard == IF Len(bits) > n THEN bits[n + 1] ELSE 0
      more == sticky \/ \E i \in (n + 2)..Len(bits) : bits[i] = 1
      up == guard = 1 /\ (more \/ m[n] = 1)
      zeros == {i \in 1..n : m[i] = 0}
      last == CHOOSE i \in zeros : \A j \in zeros : j <= i
  IN IF ~up THEN [bits |-> m, exp |-> exp]
     ELSE IF zeros = {} THEN [bits |-> [i \in 1..n |-> IF i = 1 THEN 1 ELSE 0],
                              exp |-> exp + 1]
     ELSE [bits |-> [i \in 1..n |-> IF i < last THEN m[i]
                                     ELSE IF i = last THEN 1 ELSE 0],
           exp |-> exp]

\* value / total for natural numbers 0 <= value and 0 < total
divide(value, total) ==
  IF value = 0 THEN ZERO
  ELSE LET first == normalise(value, total, 0)
           q == quotientBits(first.r - total, total, MANTISSA_BITS, <<1>>)
       IN roundToDouble(q.bits, q.sticky, first.exp)

\* bits * k from the lowest bit up, the carry passed on; low holds the bits of
\* the product found so far
RECURSIVE timesBits(_, _, _, _, _)
timesBits(bits, k, i, carry, low) ==
  IF i = 0 THEN toBits(carry) \o low
  ELSE timesBits(bits, k, i - 1, (bits[i] * k + carry) \div 2,
                 <<(bits[i] * k + carry) % 2>> \o low)

\* value * k for a double and a natural number k > 0
multiply(value, k) ==
  IF value = ZERO THEN ZERO
  ELSE LET product == timesBits(value.bits, k, MANTISSA_BITS, 0, <<>>)
       IN roundToDouble(product, FALSE,
                        value.exp + Len(product) - MANTISSA_BITS)

\* Math.round of a double in [0, 2^31): the nearest integer, a half goes up
MathRound(value) ==
  IF value = ZERO \/ value.exp < -1 THEN 0
  ELSE IF value.exp = -1 THEN 1
  ELSE fromBits(SubSeq(value.bits, 1, value.exp + 1)) + value.bits[value.exp + 2]

\* value / total for every key; the histogram itself when its total is 0
normalizeHistogram(histogram) ==
  LET total == getHistogramTotal(histogram)
  IN IF total = 0 THEN [key \in DOMAIN histogram |-> ZERO]
     ELSE [key \in DOMAIN histogram |-> divide(histogram[key], total)]

\* the raw counts capped, normalised and scaled to whole numbers, in a new
\* compressed histogram dated now
migrateToCompressed(hp, rawHistogram, now) ==
  LET capped == [key \in DOMAIN hp[rawHistogram] |->
                   Min(hp[rawHistogram][key], maxValue)]
      normalized == normalizeHistogram(capped)
      scaled == [key \in DOMAIN normalized |->
                   MathRound(multiply(normalized[key], 100))]
      grown == Append(hp, scaled)
  IN [heap |-> grown,
      result |-> createCompressedHistogram(grown, Len(grown), DEFAULT_WINDOW_DAYS, now)]

\* ------------------------------------------------------------------- the store
\* remove(id): the item stays in the collection, flagged as removed
removeItem(item) == [item EXCEPT !.signals.isRemoved = TRUE]

Init ==
  /\ heap = <<>>
  /\ items = <<>>
  /\ \E d \in Devices : context = [now |-> 0, place |-> "home", device |-> d]
  /\ call = [fn |-> "none"]
  /\ log = <<>>
  /\ steps = 0

AddItem ==
  /\ steps < MaxSteps
  /\ Len(items) < MaxItems
  /\ LET r == createItem(heap, Len(items) + 1, context.now)
     IN /\ heap' = r.heap
        /\ items' = Append(items, r.item)
        /\ call' = [fn |-> "createItem", id |-> Len(items) + 1]
  /\ log' = Append(log, <<>>)
  /\ steps' = steps + 1
  /\ UNCHANGED context

LoadItem ==
  /\ steps < MaxSteps
  /\ Len(items) < MaxItems
  /\ LET r == legacyItem(heap, Len(items) + 1, context.now)
     IN /\ heap' = r.heap
        /\ items' = Append(items, r.item)
        /\ call' = [fn |-> "loadItem", id |-> Len(items) + 1]
  /\ log' = Append(log, <<>>)
  /\ steps' = steps + 1
  /\ UNCHANGED context

RecordInteraction ==
  /\ steps < MaxSteps
  /\ \E i \in 1..Len(items), action \in Actions :
       LET r == recordInteraction(heap, items[i], action, context)
       IN /\ heap' = r.heap
          /\ items' = [items EXCEPT ![i] = r.item]
          /\ call' = [fn |-> "recordInteraction", id |-> i, action |-> action,
                      context |-> context,
                      before |-> View(heap, items[i]),
                      after |-> View(r.heap, items[i]),
                      result |-> View(r.heap, r.item)]
          /\ log' = [log EXCEPT ![i] = Append(@, [action |-> action, context |-> context])]
  /\ steps' = steps + 1
  /\ UNCHANGED context

RemoveItem ==
  /\ steps < MaxSteps
  /\ \E i \in 1..Len(items) :
       /\ ~items[i].signals.isRemoved
       /\ items' = [items EXCEPT ![i] = removeItem(@)]
       /\ call' = [fn |-> "remove", id |-> i]
  /\ steps' = steps + 1
  /\ UNCHANGED <<heap, context, log>>

RankItems ==
  /\ steps < MaxSteps
  /\ \E maxVisible \in 0..MaxVisibleArg :
       LET r == rankItems(items, context, maxVisible)
       IN /\ items' = r.items
          /\ call' = [fn |-> "rankItems", context |-> context, maxVisible |-> maxVisible,
                      before |-> [i \in 1..Len(items) |-> View(heap, items[i])],
                      after |-> [i \in 1..Len(r.items) |-> View(heap, r.items[i])],
                      all |-> r.all, visible |-> r.visible]
  /\ steps' = steps + 1
  /\ UNCHANGED <<heap, context, log>>

Tick ==
  /\ steps < MaxSteps
  /\ \E d \in Deltas : context' = [context EXCEPT !.now = @ + d]
  /\ steps' = steps + 1
  /\ UNCHANGED <<heap, items, call, log>>

SetPlace ==
  /\ steps < MaxSteps
  /\ \E p \in Places :
       /\ p # context.place
       /\ context' = [context EXCEPT !.place = p]
  /\ steps' = steps + 1
  /\ UNCHANGED <<heap, items, call, log>>

Next ==
  \/ AddItem
  \/ LoadItem
  \/ RecordInteraction
  \/ RemoveItem
  \/ RankItems
  \/ Tick
  \/ SetPlace

Spec == Init /\ [][Next]_vars

\* ------------------------------------------- one item, observed again and again
\* the store holds one freshly created item; the context never changes
InitGrowth ==
  /\ LET r == createItem(<<>>, 1, 0)
     IN /\ heap = r.heap
        /\ items = <<r.item>>
  /\ context = [now |-> 0, place |-> "home", device |-> "desktop"]
  /\ call = [fn |-> "none"]
  /\ log = << <<>> >>
  /\ steps = 0

RecordAgain ==
  /\ steps < MaxCalls
  /\ \E action \in Actions :
       LET r == recordInteraction(heap, items[1], action, context)
       IN /\ heap' = r.heap
          /\ items' = [items EXCEPT ![1] = r.item]
          /\ call' = [fn |-> "recordInteraction", id |-> 1, action |-> action,
                      context |-> context,
                      before |-> View(heap, items[1]),
                      after |-> View(r.heap, items[1]),
                      result |-> View(r.heap, r.item)]
  /\ steps' = steps + 1
  /\ UNCHANGED <<context, log>>

NextGrowth == RecordAgain

SpecGrowth == InitGrowth /\ [][NextGrowth]_vars

\* -------------------------------------- the store with pin, unpin and quiet
PinItem ==
  /\ steps < MaxSteps
  /\ \E i \in 1..Len(items), until \in {NULL} \cup {context.now + h : h \in PinHours} :
       LET r == pinItem(items[i], until)
       IN /\ items' = [items EXCEPT ![i] = r.result]
          /\ call' = [fn |-> "pinItem", id |-> i, until |-> until, context |-> context,
                      before |-> View(heap, items[i]),
                      after |-> View(heap, r.item),
                      result |-> View(heap, r.result)]
  /\ steps' = steps + 1
  /\ UNCHANGED <<heap, context, log>>

UnpinItem ==
  /\ steps < MaxSteps
  /\ \E i \in 1..Len(items) :
       LET r == unpinItem(items[i])
       IN /\ items' = [items EXCEPT ![i] = r.result]
          /\ call' = [fn |-> "unpinItem", id |-> i, context |-> context,
                      before |-> View(heap, items[i]),
                      after |-> View(heap, r.item),
                      result |-> View(heap, r.result)]
  /\ steps' = steps + 1
  /\ UNCHANGED <<heap, context, log>>

QuietItem ==
  /\ steps < MaxSteps
  /\ \E i \in 1..Len(items), hours \in QuietHours :
       LET r == quietItem(items[i], hours, context)
       IN /\ items' = [items EXCEPT ![i] = r.result]
          /\ call' = [fn |-> "quietItem", id |-> i, hours |-> hours, context |-> context,
                      before |-> View(heap, items[i]),
                      after |-> View(heap, r.item),
                      result |-> View(heap, r.result)]
  /\ steps' = steps + 1
  /\ UNCHANGED <<heap, context, log>>

NextMutators ==
  \/ AddItem
  \/ LoadItem
  \/ RecordInteraction
  \/ PinItem
  \/ UnpinItem
  \/ QuietItem
  \/ RemoveItem
  \/ Tick

SpecMutators == Init /\ [][NextMutators]_vars

\* ------------------------------------------- the classifier on sampled inputs
\* creation times around the novelty window
SampleCreatedAt == {SampleNow, SampleNow - 23, SampleNow - 24, SampleNow - 200}
\* last sightings around the decay threshold, never before the creation
SampleLastSeenAt(createdAt) ==
  {NULL} \cup {t \in {SampleNow - 169, SampleNow - 168, SampleNow} : t >= createdAt}
SampleQuietUntil == {NULL, SampleNow - 1, SampleNow, SampleNow + 1}
SampleStreak == {0, 4, 5}

StateContexts ==
  {[now |-> SampleNow, createdAt |-> c, lastSeenAt |-> l, quietUntil |-> q,
    ignoredStreak |-> n, isRemoved |-> r] :
     c \in SampleCreatedAt, l \in {NULL, SampleNow - 169, SampleNow - 168, SampleNow},
     q \in SampleQuietUntil, n \in SampleStreak, r \in BOOLEAN}

InitSampled ==
  /\ heap = <<>>
  /\ items = <<>>
  /\ context = [now |-> SampleNow, place |-> "home", device |-> "desktop"]
  /\ call = [fn |-> "none"]
  /\ log = <<>>
  /\ steps = 0

ComputeState ==
  /\ \E ctx \in StateContexts :
       /\ ctx.lastSeenAt \in SampleLastSeenAt(ctx.createdAt)
       /\ call' = [fn |-> "computeState", ctx |-> ctx, state |-> computeState(ctx)]
  /\ UNCHANGED <<heap, items, context, log, steps>>

NextClassifier == ComputeState

SpecClassifier == InitSampled /\ [][NextClassifier]_vars

\* ------------------------------------------------ the scorer on sampled items
\* histogram objects an item can reference: all weight on the sampled hour,
\* weekday, place and device, and a place histogram that leans to work
SampleHistograms ==
  <<[k \in {getHours(SampleNow)} |-> 7],
    [k \in {getDay(SampleNow)} |-> 7],
    [k \in {"home"} |-> 7],
    [k \in {"desktop"} |-> 7],
    [k \in {"home", "work"} |-> IF k = "home" THEN 2 ELSE 5]>>

\* never observed; observed here and now, often; observed once, a while ago
SampleProfiles == {"none", "here", "elsewhere"}

SampleSignals(created, profile, streak, quietUntil, removed) ==
  [createdAt |-> created,
   lastSeenAt |-> CASE profile = "none" -> NULL
                    [] profile = "here" -> SampleNow
                    [] profile = "elsewhere" -> Max(created, SampleNow - 100),
   seenCount |-> CASE profile = "none" -> 0 [] profile = "here" -> 4 [] profile = "elsewhere" -> 1,
   openedCount |-> IF profile = "here" THEN 3 ELSE 0,
   dismissedCount |-> streak,
   ignoredStreak |-> streak,
   isPinned |-> FALSE, pinUntil |-> NULL,
   quietUntil |-> quietUntil, isRemoved |-> removed,
   hourHistogram |-> IF profile = "none" THEN NULL ELSE 1,
   dayHistogram |-> IF profile = "none" THEN NULL ELSE 2,
   placeHistogram |-> CASE profile = "none" -> NULL [] profile = "here" -> 3
                        [] profile = "elsewhere" -> 5,
   deviceHistogram |-> IF profile = "none" THEN NULL ELSE 4]

SampleItem(id, signals) ==
  [id |-> id, signals |-> signals,
   computed |-> [score |-> 0, distance |-> SCALE, reasons |-> <<>>,
                 updatedAt |-> signals.createdAt]]

InitScorer ==
  /\ heap = SampleHistograms
  /\ items = <<>>
  /\ context = [now |-> SampleNow, place |-> "home", device |-> "desktop"]
  /\ call = [fn |-> "none"]
  /\ log = <<>>
  /\ steps = 0

\* the store is loaded with a sampled item and its pinned twin and ranked
RankSampled ==
  /\ items = <<>>
  /\ \E created \in {SampleNow, SampleNow - 200}, profile \in SampleProfiles,
        streak \in {0, 3, 5}, quietUntil \in {NULL, SampleNow - 1, SampleNow + 4},
        removed \in BOOLEAN, until \in {NULL, SampleNow - 1, SampleNow + 2},
        place \in Places :
       LET signals == SampleSignals(created, profile, streak, quietUntil, removed)
           coll == <<SampleItem(1, signals), pinItem(SampleItem(2, signals), until).result>>
           ctx == [context EXCEPT !.place = place]
           r == rankItems(coll, ctx, 2)
       IN /\ items' = r.items
          /\ context' = ctx
          /\ call' = [fn |-> "rankItems", context |-> ctx, maxVisible |-> 2,
                      before |-> [i \in 1..Len(coll) |-> View(heap, coll[i])],
                      after |-> [i \in 1..Len(r.items) |-> View(heap, r.items[i])],
                      all |-> r.all, visible |-> r.visible]
  /\ UNCHANGED <<heap, log, steps>>

NextScorer == RankSampled

SpecScorer == InitScorer /\ [][NextScorer]_vars

\* ------------------------------------------------ one histogram, decayed again
\* weights 0, 0.005, 0.01 and 1
SampleWeights == {0, 50, KEEP_THRESHOLD, WEIGHT_ONE}
\* factors 0, 0.5 and 1, next to the default
SampleFactors == {0, 50, 100}

\* every histogram over the two places with sampled weights
SampleHistogramsToDecay ==
  UNION {[keys -> SampleWeights] : keys \in SUBSET Places}

\* the caller holds one histogram object
InitDecay ==
  /\ \E h \in SampleHistogramsToDecay : heap = <<h>>
  /\ items = <<>>
  /\ context = [now |-> 0, place |-> "home", device |-> "desktop"]
  /\ call = [fn |-> "none"]
  /\ log = <<>>
  /\ steps = 0

\* h = decayHistogram(h): the caller keeps the returned object
Decayed(factor) ==
  LET r == decayHistogram(heap, 1, factor)
  IN /\ heap' = <<r.heap[r.ref]>>
     /\ call' = [fn |-> "decayHistogram", factor |-> factor,
                 before |-> heap[1], after |-> r.heap[1], result |-> r.heap[r.ref]]
     /\ UNCHANGED <<items, context, log, steps>>

DecayDefault == Decayed(DECAY_FACTOR)

DecayBy == \E factor \in SampleFactors : Decayed(factor)

NextDecay == DecayDefault \/ DecayBy

\* the default decay is applied again and again
SpecDecay == InitDecay /\ [][NextDecay]_vars /\ WF_vars(DecayDefault)

\* ------------------------------------------- one histogram, compressed again
\* weights 0.01, 0.015, 0.1 and 1
SampleWeightsToCompress == {KEEP_THRESHOLD, 150, 1000, WEIGHT_ONE}

SampleHistogramsToCompress ==
  UNION {[keys -> SampleWeightsToCompress] : keys \in SUBSET Places}

InitCompress ==
  /\ \E h \in SampleHistogramsToCompress : heap = <<h>>
  /\ items = <<>>
  /\ context = [now |-> 0, place |-> "home", device |-> "desktop"]
  /\ call = [fn |-> "none"]
  /\ log = <<>>
  /\ steps = 0

\* h = compressHistogram(h, key): the caller keeps the returned object
Compressed(key) ==
  LET r == compressHistogram(heap, 1, key)
  IN /\ heap' = <<r.heap[r.ref]>>
     /\ call' = [fn |-> "compressHistogram", key |-> key,
                 before |-> heap[1], after |-> r.heap[1], result |-> r.heap[r.ref]]
     /\ UNCHANGED <<items, context, log>>

Compress ==
  /\ steps < MaxCompressions
  /\ \E key \in {NULL_KEY} \cup Places : Compressed(key)
  /\ steps' = steps + 1

SpecCompress == InitCompress /\ [][Compress]_vars

\* --------------------------------------- one compressed histogram over time
\* heap[1] is the histogram, heap[2] the record whose values refer to it; log
\* keeps the histogram and the date the record started with
SampleHistogramsToWindow ==
  {[k \in {"home"} |-> WEIGHT_ONE],
   [k \in Places |-> IF k = "home" THEN 3 * WEIGHT_ONE ELSE KEEP_THRESHOLD]}

InitWindow ==
  /\ \E h \in SampleHistogramsToWindow :
       /\ heap = <<h, createCompressedHistogram(<<h>>, 1, DEFAULT_WINDOW_DAYS, SampleNow)>>
       /\ log = <<[values |-> h, lastUpdated |-> SampleNow]>>
  /\ items = <<>>
  /\ context = [now |-> SampleNow, place |-> "home", device |-> "desktop"]
  /\ call = [fn |-> "none"]
  /\ steps = 0

\* h = applyRollingWindow(h) at the time the clock shows
ApplyRollingWindow ==
  /\ steps < MaxWindowSteps
  /\ LET r == applyRollingWindow(heap, heap[2], context.now)
     IN /\ heap' = <<r.heap[r.result.values], [r.result EXCEPT !.values = 1]>>
        /\ call' = [fn |-> "applyRollingWindow", now |-> context.now,
                    before |-> heap[2], beforeValues |-> heap[1],
                    result |-> r.result, values |-> r.heap[r.result.values]]
  /\ steps' = steps + 1
  /\ UNCHANGED <<items, context, log>>

Wait ==
  /\ steps < MaxWindowSteps
  /\ \E d \in WindowDeltas : context' = [context EXCEPT !.now = @ + d]
  /\ steps' = steps + 1
  /\ UNCHANGED <<heap, items, call, log>>

NextWindow == ApplyRollingWindow \/ Wait

SpecWindow == InitWindow /\ [][NextWindow]_vars

\* --------------------------------------------- one raw histogram, migrated
\* counts as recordInteraction leaves them, some above the cap
SampleCounts == {0, 1, 2, 3, 17, 23, 40, 100, 150}

SampleRawHistograms == UNION {[keys -> SampleCounts] : keys \in SUBSET Places}

InitMigrate ==
  /\ \E raw \in SampleRawHistograms : heap = <<raw>>
  /\ items = <<>>
  /\ context = [now |-> SampleNow, place |-> "home", device |-> "desktop"]
  /\ call = [fn |-> "none"]
  /\ log = <<>>
  /\ steps = 0

\* migrateToCompressed(raw), once
Migrate ==
  /\ call.fn = "none"
  /\ LET r == migrateToCompressed(heap, 1, context.now)
     IN /\ heap' = r.heap
        /\ call' = [fn |-> "migrateToCompressed", now |-> context.now,
                    before |-> heap[1], after |-> r.heap[1],
                    result |-> r.result, values |-> r.heap[r.result.values]]
  /\ steps' = steps + 1
  /\ UNCHANGED <<items, context, log>>

SpecMigrate == InitMigrate /\ [][Migrate]_vars

\* ------------------------------- the same call at two readings of the clock
\* In SpecClock context.now is the wall clock, which new Date() reads; every
\* call is made on the same arguments: the item, the context ArgContext, and
\* two histograms. log keeps what each call returned.
ArgContext == [now |-> SampleNow, place |-> "home", device |-> "desktop"]

ArgCompressed == 5
ArgRaw == 6

InitClock ==
  /\ LET r == createItem(<<>>, 1, SampleNow)
     IN /\ heap = r.heap \o <<[k \in {"home"} |-> WEIGHT_ONE],
                                [k \in Places |-> IF k = "home" THEN 23 ELSE 17]>>
        /\ items = <<r.item>>
  /\ context = ArgContext
  /\ call = [fn |-> "none"]
  /\ log = <<>>
  /\ steps = 0

Called(fn, result) ==
  /\ steps < MaxClockSteps
  /\ call' = [fn |-> fn]
  /\ log' = Append(log, [fn |-> fn, clock |-> context.now, result |-> result])
  /\ steps' = steps + 1
  /\ UNCHANGED <<heap, items, context>>

CallRankItems == Called("rankItems", rankItems(items, ArgContext, 1).visible)

CallRecordInteraction ==
  LET r == recordInteraction(heap, items[1], "seen", ArgContext)
  IN Called("recordInteraction", View(r.heap, r.item))

CallPinItem ==
  Called("pinItem", View(heap, pinItem(items[1], ArgContext.now + 2).result))

CallUnpinItem == Called("unpinItem", View(heap, unpinItem(items[1]).result))

CallQuietItem ==
  Called("quietItem", View(heap, quietItem(items[1], 4, ArgContext).result))

\* computeState(createStateContext(item.signals))
CallComputeState ==
  Called("computeState",
         computeState(createStateContext(items[1].signals, FALSE, context.now)))

CallApplyRollingWindow ==
  LET h == createCompressedHistogram(heap, ArgCompressed, DEFAULT_WINDOW_DAYS, SampleNow)
      r == applyRollingWindow(heap, h, context.now)
  IN Called("applyRollingWindow",
            [r.result EXCEPT !.values = r.heap[r.result.values]])

CallMigrateToCompressed ==
  LET r == migrateToCompressed(heap, ArgRaw, context.now)
  IN Called("migrateToCompressed",
            [r.result EXCEPT !.values = r.heap[r.result.values]])

ClockTick ==
  /\ steps < MaxClockSteps
  /\ \E d \in Deltas : context' = [context EXCEPT !.now = @ + d]
  /\ steps' = steps + 1
  /\ UNCHANGED <<heap, items, call, log>>

NextClock ==
  \/ CallRankItems \/ CallRecordInteraction \/ CallPinItem \/ CallUnpinItem
  \/ CallQuietItem \/ CallComputeState \/ CallApplyRollingWindow
  \/ CallMigrateToCompressed \/ ClockTick

SpecClock == InitClock /\ [][NextClock]_vars

\* ------------------------------------------------- the surface's reminders
\* In SpecReminder heap is the surface with what outlives it: lastReminderRef,
\* whether the component is mounted, which mount it is, and localStorage;
\* items are the store's state.items, items[i].visible says whether the item
\* is among state.visibleItems; context.now is the clock in hours and log the
\* reminders played.
\* AUDIO.REMINDER_INTERVAL_MS and AUDIO.REMINDER_AGE_HOURS
REMINDER_INTERVAL_MS == 2 * MS_PER_HOUR
REMINDER_AGE_HOURS == 1
\* STORAGE_KEYS.LAST_REMINDER
LAST_REMINDER == "lastReminder"

\* now.toString(): the decimal digits of a natural number
RECURSIVE numberToString(_)
numberToString(n) ==
  IF n < 10 THEN <<n>> ELSE numberToString(n \div 10) \o <<n % 10>>

\* parseInt(string, 10) of a string of digits
RECURSIVE parseInt(_)
parseInt(string) ==
  IF Len(string) = 1 THEN string[1]
  ELSE 10 * parseInt(SubSeq(string, 1, Len(string) - 1)) + string[Len(string)]

\* Date.now()
DateNow == getTime(context.now)

\* the mount effect: lastReminderRef is null unless localStorage holds a time
loadLastReminder(localStorage) ==
  IF LAST_REMINDER \in DOMAIN localStorage /\ localStorage[LAST_REMINDER] # <<>>
  THEN parseInt(localStorage[LAST_REMINDER])
  ELSE NULL

\* the items a reminder is due for, among state.items
oldItems(state, now) ==
  {i \in 1..Len(state) :
     /\ ~(state[i].signals.isRemoved \/ state[i].signals.isPinned)
     /\ now - state[i].createdAt >= REMINDER_AGE_HOURS * MS_PER_HOUR}

\* variant of checkForReminders: the time of the reminder is not stored
checkForRemindersForgetful(surface, state, now) ==
  LET lastReminder == IF surface.lastReminderRef = NULL THEN 0
                      ELSE surface.lastReminderRef
      visibleOld == {i \in oldItems(state, now) : state[i].visible}
  IN IF now - lastReminder < REMINDER_INTERVAL_MS \/ visibleOld = {}
     THEN [surface |-> surface, played |-> FALSE]
     ELSE [surface |-> [surface EXCEPT !.lastReminderRef = now], played |-> TRUE]

\* the timer callback: nothing within the interval or without a visible old
\* item; else the reminder plays and its time goes to the ref and localStorage
checkForReminders(surface, state, now) ==
  LET lastReminder == IF surface.lastReminderRef = NULL THEN 0
                      ELSE surface.lastReminderRef
      visibleOld == {i \in oldItems(state, now) : state[i].visible}
  IN IF now - lastReminder < REMINDER_INTERVAL_MS \/ visibleOld = {}
     THEN [surface |-> surface, played |-> FALSE]
     ELSE [surface |->
             [surface EXCEPT
                !.lastReminderRef = now,
                !.localStorage = [k \in DOMAIN @ \cup {LAST_REMINDER} |->
                                    IF k = LAST_REMINDER THEN numberToString(now)
                                    ELSE @[k]]],
           played |-> TRUE]

InitReminder ==
  /\ heap = [lastReminderRef |-> NULL, mounted |-> TRUE, mount |-> 1,
             localStorage |-> [k \in {} |-> <<>>]]
  /\ \E removed \in BOOLEAN, pinned \in BOOLEAN, visible \in BOOLEAN :
       items = <<[id |-> 1, createdAt |-> 0, visible |-> visible,
                  signals |-> [isRemoved |-> removed, isPinned |-> pinned]]>>
  /\ context = [now |-> 0, place |-> "home", device |-> "desktop"]
  /\ call = [fn |-> "none"]
  /\ log = <<>>
  /\ steps = 0

\* setInterval / setTimeout run checkForReminders while the surface is mounted
CheckForReminders ==
  /\ steps < MaxReminderSteps
  /\ heap.mounted
  /\ LET r == checkForReminders(heap, items, DateNow)
     IN /\ heap' = r.surface
        /\ log' = IF r.played THEN Append(log, [at |-> DateNow, mount |-> heap.mount])
                  ELSE log
        /\ call' = [fn |-> "checkForReminders", played |-> r.played]
  /\ steps' = steps + 1
  /\ UNCHANGED <<items, context>>

\* the cleanup of the effects: the timers are cleared, the ref is gone
Unmount ==
  /\ steps < MaxReminderSteps
  /\ heap.mounted
  /\ heap' = [heap EXCEPT !.mounted = FALSE, !.lastReminderRef = NULL]
  /\ call' = [fn |-> "unmount"]
  /\ steps' = steps + 1
  /\ UNCHANGED <<items, context, log>>

\* useRef(null), then the mount effect loads the last reminder time
Mount ==
  /\ steps < MaxReminderSteps
  /\ ~heap.mounted
  /\ heap' = [heap EXCEPT !.mounted = TRUE, !.mount = @ + 1,
                          !.lastReminderRef = loadLastReminder(heap.localStorage)]
  /\ call' = [fn |-> "mount"]
  /\ steps' = steps + 1
  /\ UNCHANGED <<items, context, log>>

\* the user pins or unpins the item
TogglePin ==
  /\ steps < MaxReminderSteps
  /\ items' = [items EXCEPT ![1].signals.isPinned = ~@]
  /\ call' = [fn |-> "pin"]
  /\ steps' = steps + 1
  /\ UNCHANGED <<heap, context, log>>

ClockHour ==
  /\ steps < MaxReminderSteps
  /\ context' = [context EXCEPT !.now = @ + 1]
  /\ steps' = steps + 1
  /\ UNCHANGED <<heap, items, call, log>>

NextReminder == CheckForReminders \/ Unmount \/ Mount \/ TogglePin \/ ClockHour

SpecReminder == InitReminder /\ [][NextReminder]_vars

\* ------------------------------------------------------- the ambient music
\* In SpecAudio heap is the state of useAudio: the refs, isMusicPlaying, the
\* sources that were started and not stopped (each loops until stopped), and
\* the calls of loadAndPlayAmbient in flight, counted by where they wait:
\* fetch "pending" is the call inside initAudioContext's fetch and decode,
\* resuming the calls in `await ctx.resume()`, timers the 500 ms retry timers;
\* timerId is the id setTimeout gave the last of them, of which its parity is
\* kept.
\* A continuation whose promise is already resolved runs before any other
\* event, so it is part of the step that resolved it. steps counts what the
\* user does.
InFlight(audio) ==
  audio.resuming + audio.timers + (IF audio.fetch = "pending" THEN 1 ELSE 0)

\* createBufferSource, loop = true, start, setIsMusicPlaying(true)
startSource(audio) ==
  [audio EXCEPT !.created = @ + 1,
                !.ambientSourceRef = audio.created + 1,
                !.playing = @ \cup {audio.created + 1},
                !.isMusicPlaying = TRUE]

\* loadAndPlayAmbient after `await initAudioContext()`: a retry timer without
\* a buffer, else resume a suspended context, else start a source
afterInit(audio) ==
  IF ~audio.ambientBufferRef
  THEN [audio EXCEPT !.timers = @ + 1, !.timerId = (@ + 1) % 2]
  ELSE IF audio.suspended THEN [audio EXCEPT !.resuming = @ + 1]
  ELSE startSource(audio)

\* loadAndPlayAmbient(): initAudioContext returns at once when the context
\* exists, else it creates the context and waits for the fetch
loadAndPlayAmbient(audio) ==
  IF audio.audioContextRef THEN afterInit(audio)
  ELSE [audio EXCEPT !.audioContextRef = TRUE, !.fetch = "pending"]

stopAmbient(audio) ==
  IF audio.ambientSourceRef # NULL
  THEN [audio EXCEPT !.playing = @ \ {audio.ambientSourceRef},
                     !.ambientSourceRef = NULL,
                     !.isMusicPlaying = FALSE]
  ELSE [audio EXCEPT !.isMusicPlaying = FALSE]

toggleMusic(audio) ==
  IF audio.isMusicPlaying
  THEN [stopAmbient(audio) EXCEPT !.musicPref = "off"]
  ELSE [loadAndPlayAmbient(audio) EXCEPT !.musicPref = "on"]

\* the hook after its mount effect, which plays when the preference is 'on'
InitAudio ==
  /\ \E musicPref \in {"on", "off"}, suspended \in BOOLEAN :
       LET audio == [audioContextRef |-> FALSE, ambientBufferRef |-> FALSE,
                     ambientSourceRef |-> NULL, isMusicPlaying |-> FALSE,
                     playing |-> {}, created |-> 0, suspended |-> suspended,
                     fetch |-> "none", resuming |-> 0, timers |-> 0, timerId |-> 0,
                     musicPref |-> musicPref, mounted |-> TRUE]
       IN heap = IF musicPref = "on" THEN loadAndPlayAmbient(audio) ELSE audio
  /\ items = <<>>
  /\ context = [now |-> 0, place |-> "home", device |-> "desktop"]
  /\ call = [fn |-> "none"]
  /\ log = <<>>
  /\ steps = 0

ToggleMusic ==
  /\ steps < MaxToggles
  /\ heap.mounted
  /\ heap' = toggleMusic(heap)
  /\ call' = [fn |-> "toggleMusic"]
  /\ steps' = steps + 1
  /\ UNCHANGED <<items, context, log>>

\* the cleanup of the mount effect; no timer is cleared
UnmountAudio ==
  /\ steps < MaxToggles
  /\ heap.mounted
  /\ heap' = [stopAmbient(heap) EXCEPT !.mounted = FALSE]
  /\ call' = [fn |-> "unmount"]
  /\ steps' = steps + 1
  /\ UNCHANGED <<items, context, log>>

\* fetch, arrayBuffer and decodeAudioData succeed, and the call goes on
FetchLoaded ==
  /\ heap.fetch = "pending"
  /\ heap' = afterInit([heap EXCEPT !.fetch = "loaded", !.ambientBufferRef = TRUE])
  /\ call' = [fn |-> "fetch"]
  /\ UNCHANGED <<items, context, log, steps>>

\* one of them fails: the catch logs a warning, the buffer stays null and the
\* call goes on
FetchFailed ==
  /\ heap.fetch = "pending"
  /\ heap' = afterInit([heap EXCEPT !.fetch = "failed"])
  /\ call' = [fn |-> "fetch"]
  /\ UNCHANGED <<items, context, log, steps>>

\* ctx.resume() resolves and the call goes on to start its source
Resumed ==
  /\ heap.resuming > 0
  /\ heap' = startSource([heap EXCEPT !.resuming = @ - 1, !.suspended = FALSE])
  /\ call' = [fn |-> "resume"]
  /\ UNCHANGED <<items, context, log, steps>>

\* a retry timer fires: setTimeout(() => loadAndPlayAmbient(), 500)
RetryTimer ==
  /\ heap.timers > 0
  /\ heap' = loadAndPlayAmbient([heap EXCEPT !.timers = @ - 1])
  /\ call' = [fn |-> "retry"]
  /\ UNCHANGED <<items, context, log, steps>>

Scheduled == FetchLoaded \/ FetchFailed \/ Resumed \/ RetryTimer

NextAudio == ToggleMusic \/ UnmountAudio \/ Scheduled

\* the event loop runs every promise continuation and every timer that is due
SpecAudio == InitAudio /\ [][NextAudio]_vars /\ WF_vars(Scheduled)

\* ------------------------------------------------------ the storage module
\* A JavaScript value is [type, text]: text holds the characters of a string,
\* the digits of a number, the letters of true and false, and nothing for null
\* and for the empty array. In SpecStorage heap holds both backends side by
\* side, chrome.storage.local and localStorage, every call is made on both, and
\* log keeps the value last set under each key.
JsNull == [type |-> "null", text |-> <<>>]
JsEmptyArray == [type |-> "array", text |-> <<>>]

\* values that JSON can represent
JsonValues ==
  {JsNull, JsEmptyArray,
   [type |-> "boolean", text |-> <<"f", "a", "l", "s", "e">>],
   [type |-> "boolean", text |-> <<"t", "r", "u", "e">>],
   [type |-> "number", text |-> <<"0">>],
   [type |-> "number", text |-> <<"7">>],
   [type |-> "string", text |-> <<>>],
   [type |-> "string", text |-> <<"a">>]}

\* the key the application uses, and another
StorageKeys == {"orbit-items", "orbit-mode"}

\* JSON.stringify(value): the characters of the JSON text
JSONstringify(value) ==
  CASE value.type = "null" -> <<"n", "u", "l", "l">>
    [] value.type = "string" -> <<"\"">> \o value.text \o <<"\"">>
    [] value.type = "array" -> <<"[", "]">>
    [] OTHER -> value.text

\* JSON.parse(raw) of a text that JSON.stringify wrote
JSONparse(raw) ==
  CASE raw[1] = "n" -> JsNull
    [] raw[1] = "\"" -> [type |-> "string", text |-> SubSeq(raw, 2, Len(raw) - 1)]
    [] raw[1] = "[" -> JsEmptyArray
    [] raw[1] \in {"t", "f"} -> [type |-> "boolean", text |-> raw]
    [] OTHER -> [type |-> "number", text |-> raw]

\* result[key] ?? fallback in an extension; else raw ? JSON.parse(raw) : fallback
get(store, isChromeExtension, key, fallback) ==
  IF isChromeExtension
  THEN IF key \in DOMAIN store.chrome /\ store.chrome[key] # JsNull
       THEN store.chrome[key]
       ELSE fallback
  ELSE IF key \in DOMAIN store.localStorage /\ store.localStorage[key] # <<>>
       THEN JSONparse(store.localStorage[key])
       ELSE fallback

\* chrome.storage.local.set({[key]: value}) in an extension; else
\* localStorage.setItem(key, JSON.stringify(value))
set(store, isChromeExtension, key, value) ==
  IF isChromeExtension
  THEN [store EXCEPT !.chrome = [k \in DOMAIN @ \cup {key} |->
                                   IF k = key THEN value ELSE @[k]]]
  ELSE [store EXCEPT !.localStorage = [k \in DOMAIN @ \cup {key} |->
                                         IF k = key THEN JSONstringify(value)
                                         ELSE @[k]]]

InitStorage ==
  /\ heap = [chrome |-> [k \in {} |-> JsNull], localStorage |-> [k \in {} |-> <<>>]]
  /\ items = <<>>
  /\ context = [now |-> 0, place |-> "home", device |-> "desktop"]
  /\ call = [fn |-> "none"]
  /\ log = [k \in {} |-> JsNull]
  /\ steps = 0

\* storage.set(key, value), on each backend
StorageSet ==
  /\ steps < MaxStorageSteps
  /\ \E key \in StorageKeys, value \in JsonValues :
       /\ heap' = set(set(heap, TRUE, key, value), FALSE, key, value)
       /\ log' = [k \in DOMAIN log \cup {key} |-> IF k = key THEN value ELSE log[k]]
       /\ call' = [fn |-> "set", key |-> key, value |-> value]
  /\ steps' = steps + 1
  /\ UNCHANGED <<items, context>>

\* storage.get(key, fallback), on each backend
StorageGet ==
  /\ steps < MaxStorageSteps
  /\ \E key \in StorageKeys, fallback \in {JsEmptyArray, JsNull, [type |-> "number", text |-> <<"7">>]} :
       call' = [fn |-> "get", key |-> key, fallback |-> fallback,
                extension |-> get(heap, TRUE, key, fallback),
                web |-> get(heap, FALSE, key, fallback)]
  /\ steps' = steps + 1
  /\ UNCHANGED <<heap, items, context, log>>

NextStorage == StorageSet \/ StorageGet

SpecStorage == InitStorage /\ [][NextStorage]_vars

\* ===================================================================== claims
IsRank == call.fn = "rankItems"
IsRecord == call.fn = "recordInteraction"

\* lifecycle state of a ranked item at the context the ranking was made for
stateOf(item, ctx) ==
  computeState(createStateContext(item.signals, item.signals.isRemoved, ctx.now))

\* how often an id occurs in a list of items
Occurrences(arr, id) == Cardinality({k \in 1..Len(arr) : arr[k].id = id})

\* C1: no archived item (isRemoved set) appears in `all` or `visible` of rankItems.
C1_ArchivedNeverRanked ==
  IsRank =>
    /\ \A k \in 1..Len(call.all) : stateOf(call.all[k], call.context) # "archived"
    /\ \A k \in 1..Len(call.visible) : stateOf(call.visible[k], call.context) # "archived"

\* C2: recordInteraction leaves every field of its input item, and the contents
\* of the input's four histograms, as they were before the call.
C2_RecordDoesNotMutateInput == IsRecord => call.after = call.before

\* C3: `visible` is the first min(maxVisible, |all|) entries of `all`; an empty
\* collection gives two empty lists.
C3_VisibleIsPrefixOfAll ==
  IsRank =>
    /\ Len(call.visible) = Min(call.maxVisible, Len(call.all))
    /\ \A k \in 1..Len(call.visible) : call.visible[k] = call.all[k]
    /\ (Len(call.before) = 0 => call.all = <<>> /\ call.visible = <<>>)

C3_Witness ==
  IsRank /\ Len(call.all) = 2 /\ call.maxVisible = 1 /\ Len(call.visible) = 1

\* C4: `all` holds every non-archived input item exactly once and nothing else.
C4_AllIsTheNonArchivedInput ==
  IsRank =>
    /\ \A k \in 1..Len(call.before) :
         Occurrences(call.all, call.before[k].item.id)
           = (IF stateOf(call.before[k].item, call.context) = "archived" THEN 0 ELSE 1)
    /\ \A k \in 1..Len(call.all) :
         \E j \in 1..Len(call.before) : call.before[j].item.id = call.all[k].id

\* position of an id in the input collection of the last rankItems call
InputPos(id) == CHOOSE k \in 1..Len(call.before) : call.before[k].item.id = id

\* C5: `all` is ordered by score descending, and items of equal score keep the
\* relative order they had in the input collection.
C5_SortedDescendingAndStable ==
  IsRank =>
    \A i, j \in 1..Len(call.all) :
      i < j =>
        /\ call.all[i].computed.score >= call.all[j].computed.score
        /\ (call.all[i].computed.score = call.all[j].computed.score
              => InputPos(call.all[i].id) < InputPos(call.all[j].id))

\* the sort moved the second input item in front of the first
C5_Witness ==
  /\ IsRank
  /\ Len(call.all) = 2
  /\ call.all[1].computed.score > call.all[2].computed.score
  /\ InputPos(call.all[1].id) > InputPos(call.all[2].id)

\* C6: rankItems leaves the input array (same items, same order) and every
\* input item (its computed and signals included) as they were.
C6_RankDoesNotMutateInput == IsRank => call.after = call.before

\* a ranking whose output differs from the input in order and in `computed`
C6_Witness ==
  /\ IsRank
  /\ Len(call.all) = 2
  /\ call.all[1].id # call.before[1].item.id
  /\ call.all[1].computed # call.before[2].item.computed

\* C7: seen / opened add one to the matching counter (a missing counter is 0),
\* leave the other two counters alone, set lastSeenAt to context.now and reset
\* ignoredStreak to 0.
C7_SeenOpenedCounters ==
  (IsRecord /\ call.action \in {"seen", "opened"}) =>
    LET old == call.before.item.signals
        new == call.result.item.signals
    IN /\ (call.action = "seen" =>
             /\ new.seenCount = Or0(old.seenCount) + 1
             /\ new.openedCount = old.openedCount)
       /\ (call.action = "opened" =>
             /\ new.openedCount = Or0(old.openedCount) + 1
             /\ new.seenCount = old.seenCount)
       /\ new.dismissedCount = old.dismissedCount
       /\ new.lastSeenAt = call.context.now
       /\ new.ignoredStreak = 0

\* an `opened` that ends a streak and moves lastSeenAt
C7_Witness ==
  /\ IsRecord
  /\ call.action = "opened"
  /\ Or0(call.before.item.signals.ignoredStreak) > 0
  /\ call.before.item.signals.lastSeenAt # call.context.now
  /\ call.result.item.signals.openedCount = 1

\* C8: dismissed adds one to dismissedCount and to ignoredStreak, leaves
\* seenCount and openedCount alone and does not touch lastSeenAt.
C8_DismissedCounters ==
  (IsRecord /\ call.action = "dismissed") =>
    LET old == call.before.item.signals
        new == call.result.item.signals
    IN /\ new.dismissedCount = Or0(old.dismissedCount) + 1
       /\ new.ignoredStreak = Or0(old.ignoredStreak) + 1
       /\ new.seenCount = old.seenCount
       /\ new.openedCount = old.openedCount
       /\ new.lastSeenAt = old.lastSeenAt

\* a dismissal of an item last seen at an earlier time
C8_Witness ==
  /\ IsRecord
  /\ call.action = "dismissed"
  /\ call.before.item.signals.lastSeenAt # NULL
  /\ call.before.item.signals.lastSeenAt < call.context.now

\* the returned histogram is the one before the call with `key` one higher
BumpedBy1(old, new, key) ==
  /\ DOMAIN new = (DOMAIN old) \cup {key}
  /\ new[key] = Weight(old, key) + 1
  /\ \A k \in (DOMAIN old) \ {key} : new[k] = old[k]

\* number of recorded interactions of item i whose context maps to `key`
Observed(i, Key(_), key) == Cardinality({n \in 1..Len(log[i]) : Key(log[i][n].context) = key})

hourKey(ctx) == getHours(ctx.now)
dayKey(ctx) == getDay(ctx.now)
placeKey(ctx) == ctx.place
deviceKey(ctx) == ctx.device

\* every weight of histogram h of item i is the number of interactions observed
\* under that key
CountsObservations(i, h, Key(_)) ==
  /\ \A k \in DOMAIN h : h[k] = Observed(i, Key, k)
  /\ \A n \in 1..Len(log[i]) : Key(log[i][n].context) \in DOMAIN h

\* C9: every recordInteraction call adds exactly 1 to the hour, weekday, place
\* and device key of the context and changes no other key, so n calls with one
\* context leave each of the four weights n higher.
C9_HistogramsCountEveryCall ==
  /\ IsRecord =>
       /\ BumpedBy1(call.before.hourHistogram, call.result.hourHistogram,
                    hourKey(call.context))
       /\ BumpedBy1(call.before.dayHistogram, call.result.dayHistogram,
                    dayKey(call.context))
       /\ BumpedBy1(call.before.placeHistogram, call.result.placeHistogram,
                    placeKey(call.context))
       /\ BumpedBy1(call.before.deviceHistogram, call.result.deviceHistogram,
                    deviceKey(call.context))
  /\ \A i \in 1..Len(items) :
       LET v == View(heap, items[i])
       IN /\ CountsObservations(i, v.hourHistogram, hourKey)
          /\ CountsObservations(i, v.dayHistogram, dayKey)
          /\ CountsObservations(i, v.placeHistogram, placeKey)
          /\ CountsObservations(i, v.deviceHistogram, deviceKey)

\* the third of three calls in one context, of different kinds
C9_Witness ==
  /\ IsRecord
  /\ LET l == log[call.id]
     IN /\ Len(l) = 3
        /\ l[1].context = l[3].context
        /\ l[2].context = l[3].context
        /\ l[1].action # l[3].action
  /\ call.result.hourHistogram[hourKey(call.context)] = 3
  /\ call.result.deviceHistogram[deviceKey(call.context)] = 3

\* number of dismissed events at the end of an interaction history
RECURSIVE TrailingDismissed(_)
TrailingDismissed(l) ==
  IF l = <<>> \/ l[Len(l)].action # "dismissed" THEN 0
  ELSE 1 + TrailingDismissed(SubSeq(l, 1, Len(l) - 1))

\* C10: ignoredStreak of an item that started at 0 is the number of dismissed
\* events since the last seen or opened event (or since the start).
C10_StreakCountsTrailingDismissals ==
  \A i \in 1..Len(items) :
    LET streak == items[i].signals.ignoredStreak
    IN streak # NULL => streak >= 0 /\ streak = TrailingDismissed(log[i])

\* dismissed, then seen, then dismissed again: the streak is 1, not 2
C10_Witness ==
  \E i \in 1..Len(items) :
    /\ Len(log[i]) = 3
    /\ log[i][1].action = "dismissed"
    /\ log[i][2].action = "seen"
    /\ log[i][3].action = "dismissed"
    /\ items[i].signals.ignoredStreak = 1

\* the weight at which one decay step takes away what one observation adds:
\* w * 0.95 + 1 = w.  A histogram that is decayed on every observation never
\* holds more.
CompressedWeightLimit == 100 \div (100 - DECAY_FACTOR)

\* C11: however many recordInteraction calls an item has received, every weight
\* of its four histograms stays within the fixed limit that decay on every
\* observation gives.
C11_WeightsStayBounded ==
  \A i \in 1..Len(items) :
    LET v == View(heap, items[i])
    IN \A f \in {"hourHistogram", "dayHistogram", "placeHistogram", "deviceHistogram"} :
         \A k \in DOMAIN v[f] : v[f][k] <= CompressedWeightLimit

IsPin == call.fn = "pinItem"
IsUnpin == call.fn = "unpinItem"
IsQuiet == call.fn = "quietItem"

\* C12: pinItem(item, until) returns the input with isPinned = true and pinUntil
\* = until (null when no expiry is passed) and every other field, histograms
\* included, as in the input; the input item is left as it was.
C12_PinSetsOnlyPinFields ==
  IsPin =>
    /\ call.result.item.signals.isPinned
    /\ call.result.item.signals.pinUntil = call.until
    /\ call.result = [call.before EXCEPT !.item.signals.isPinned = TRUE,
                                         !.item.signals.pinUntil = call.until]
    /\ call.after = call.before

\* a pin with an expiry on an item that was not pinned and has a history
C12_Witness ==
  /\ IsPin
  /\ call.until # NULL
  /\ ~call.before.item.signals.isPinned
  /\ call.before.item.signals.lastSeenAt # NULL
  /\ call.result.item.signals.pinUntil > call.context.now

\* C13: unpinItem applied to the result of pinItem(item, d) gives the original
\* item with isPinned = false and pinUntil = null and no other difference; a
\* second unpinItem returns what the first returned.  (A step that moves the
\* clock is no call; the last call stays on record across it.)
C13_UnpinUndoesPin ==
  [][LET unpinNow == /\ steps' = steps + 1
                     /\ context' = context
                     /\ call'.fn = "unpinItem"
                     /\ call'.id = call.id
     IN /\ (IsPin /\ unpinNow) =>
             /\ call'.before = call.result
             /\ call'.result = [call.before EXCEPT !.item.signals.isPinned = FALSE,
                                                   !.item.signals.pinUntil = NULL]
        /\ (IsUnpin /\ unpinNow) =>
             /\ call'.before = call.result
             /\ call'.result = call.result]_vars

\* an unpin of an item that is pinned with an expiry
C13_Witness ==
  /\ IsUnpin
  /\ call.before.item.signals.isPinned
  /\ call.before.item.signals.pinUntil # NULL
  /\ ~call.result.item.signals.isPinned

\* C14: quietItem(item, hours, context) returns the input with quietUntil =
\* context.now + hours and dismissedCount one higher (a missing count is 0);
\* every other field, histograms included, is as in the input, and the input
\* item is left as it was.
C14_QuietSetsExpiryAndCountsDismissal ==
  IsQuiet =>
    /\ call.result.item.signals.quietUntil = call.context.now + call.hours
    /\ call.result = [call.before EXCEPT
                        !.item.signals.quietUntil = call.context.now + call.hours,
                        !.item.signals.dismissedCount = Or0(@) + 1]
    /\ call.after = call.before

\* a quiet, later than time 0, of a persisted item that has no dismissedCount
C14_Witness ==
  /\ IsQuiet
  /\ call.context.now > 0
  /\ call.before.item.signals.dismissedCount = NULL
  /\ call.result.item.signals.dismissedCount = 1

\* C16: an item whose lifecycle state is archived is archived after every further
\* step (recordInteraction, pinItem, unpinItem, quietItem, the clock moving);
\* archived is the one state without an outgoing edge in the transition table.
C16_ArchivedIsTerminal ==
  [][/\ getValidTransitions("archived") = {}
     /\ \A s \in States \ {"archived"} : getValidTransitions(s) # {}
     /\ \A i \in 1..Len(items) :
          stateOf(items[i], context) = "archived"
            => stateOf(items'[i], context') = "archived"]_vars

\* a removed item was quieted, its quiet period is running, and it is archived
C16_Witness ==
  /\ IsQuiet
  /\ call.before.item.signals.isRemoved
  /\ items[call.id].signals.quietUntil > context.now
  /\ stateOf(items[call.id], context) = "archived"

IsState == call.fn = "computeState"

\* C15: computeState returns archived exactly when isRemoved; otherwise quieted
\* exactly when quietUntil is set and after now; otherwise new exactly when the
\* item is less than 24 hours old; otherwise decaying exactly when ignoredStreak
\* is at least 5 or the last sighting is more than 7 days back; otherwise active.
C15_StatePriorityOrder ==
  IsState =>
    LET c == call.ctx
        quiet == c.quietUntil # NULL /\ c.quietUntil > c.now
        novel == c.now - c.createdAt < 24
        stale == \/ c.ignoredStreak >= 5
                 \/ c.lastSeenAt # NULL /\ c.now - c.lastSeenAt > 7 * 24
    IN /\ (call.state = "archived") = c.isRemoved
       /\ (call.state = "quieted") = (~c.isRemoved /\ quiet)
       /\ (call.state = "new") = (~c.isRemoved /\ ~quiet /\ novel)
       /\ (call.state = "decaying") = (~c.isRemoved /\ ~quiet /\ ~novel /\ stale)
       /\ (call.state = "active") = (~c.isRemoved /\ ~quiet /\ ~novel /\ ~stale)

\* an item that is quieted and still new: quieted wins
C15_Witness ==
  /\ IsState
  /\ ~call.ctx.isRemoved
  /\ call.ctx.quietUntil # NULL /\ call.ctx.quietUntil > call.ctx.now
  /\ call.ctx.now - call.ctx.createdAt < 24
  /\ call.state = "quieted"

\* C17: every score attached by rankItems lies in [0, 1] and the distance
\* attached with it is exactly 1 - score.
C17_ScoreInUnitIntervalDistanceInverse ==
  IsRank =>
    \A k \in 1..Len(call.all) :
      /\ 0 <= call.all[k].computed.score
      /\ call.all[k].computed.score <= SCALE
      /\ call.all[k].computed.distance = SCALE - call.all[k].computed.score

\* a ranking that holds a score of 1 (distance 0) next to a lower score
C17_Witness ==
  /\ IsRank
  /\ Len(call.all) = 2
  /\ call.all[1].computed.score = SCALE
  /\ call.all[1].computed.distance = 0
  /\ call.all[2].computed.score \in 1..(SCALE - 1)

\* what rankItems computed for the input item with this id
ComputedOf(id) == (CHOOSE x \in {call.all[k] : k \in 1..Len(call.all)} : x.id = id).computed

\* the ranked collection is an unpinned item followed by its twin, pinned
\* without expiry and identical in every other signal
PinnedTwins ==
  /\ IsRank
  /\ Len(call.before) = 2
  /\ ~call.before[1].item.signals.isPinned
  /\ call.before[2].item.signals.isPinned
  /\ call.before[2].item.signals.pinUntil = NULL
  /\ call.before[1].item.signals = [call.before[2].item.signals EXCEPT !.isPinned = FALSE]

IsDecay == call.fn = "decayHistogram"

\* C19: decayHistogram(h, factor) returns exactly the keys of h whose weight
\* times factor is at least 0.01, each with that product (to the precision
\* weights are kept at), and leaves h as it was; decayed again and again with
\* the default factor 0.95, a histogram ends up without keys.
C19_DecayKeepsProductsAboveThreshold ==
  /\ [](IsDecay =>
          /\ DOMAIN call.result
               = {k \in DOMAIN call.before :
                    call.before[k] * call.factor >= KEEP_THRESHOLD * 100}
          /\ \A k \in DOMAIN call.result :
               /\ call.result[k] * 100 <= call.before[k] * call.factor
               /\ call.before[k] * call.factor < (call.result[k] + 1) * 100
          /\ call.after = call.before)
  /\ <>(DOMAIN heap[1] = {})

\* a decay by 0.95 that keeps one key, at 0.95 of its weight, and drops another
C19_Witness ==
  /\ IsDecay
  /\ call.factor = DECAY_FACTOR
  /\ \E k \in DOMAIN call.result : call.result[k] * 100 = call.before[k] * DECAY_FACTOR
  /\ \E k \in DOMAIN call.before : call.before[k] > 0 /\ k \notin DOMAIN call.result

\* C20: decayHistogram with factor 1 returns its input, and with a factor below
\* 1 the total weight does not grow and, for a histogram with keys, shrinks.
C20_FactorOneNoOpFactorBelowShrinks ==
  IsDecay =>
    /\ call.factor = 100 => call.result = call.before
    /\ call.factor < 100 =>
         /\ getHistogramTotal(call.result) <= getHistogramTotal(call.before)
         /\ (DOMAIN call.before # {}
               => getHistogramTotal(call.result) < getHistogramTotal(call.before))

\* C20, amended: decayHistogram with factor 1 returns its input without the keys
\* whose weight is below 0.01 (so it returns the input when there is none, and
\* its own result when applied again), and with a factor below 1 the total
\* weight does not grow and, when it is positive, shrinks.
C20_FactorOneDropsSmallFactorBelowShrinks ==
  IsDecay =>
    /\ call.factor = 100 =>
         /\ DOMAIN call.result = {k \in DOMAIN call.before : call.before[k] >= KEEP_THRESHOLD}
         /\ \A k \in DOMAIN call.result : call.result[k] = call.before[k]
    /\ call.factor < 100 =>
         /\ getHistogramTotal(call.result) <= getHistogramTotal(call.before)
         /\ (getHistogramTotal(call.before) > 0
               => getHistogramTotal(call.result) < getHistogramTotal(call.before))

\* a decay with factor 1 that drops one key and keeps another
C20_Witness ==
  /\ IsDecay
  /\ call.factor = 100
  /\ DOMAIN call.result # {}
  /\ DOMAIN call.result # DOMAIN call.before

IsCompress == call.fn = "compressHistogram"

\* weight of key j after the decay step and the new observation k, before the
\* rounding, in millionths
CompressedExactly(h, k, j) ==
  (IF j \in DOMAIN h /\ h[j] * DECAY_FACTOR >= KEEP_THRESHOLD * 100
   THEN h[j] * DECAY_FACTOR ELSE 0)
  + (IF j = k THEN WEIGHT_ONE * 100 ELSE 0)

\* C21: compressHistogram(h, k) holds the keys that survive one decay by 0.95,
\* and k when k is not null; each weight is the decayed weight, plus 1 for k,
\* rounded to the hundredth, so a multiple of 0.01 that is at least 0.01; h is
\* left as it was.
C21_CompressIsDecayAddRound ==
  IsCompress =>
    /\ DOMAIN call.result
         = {j \in DOMAIN call.before :
              call.before[j] * DECAY_FACTOR >= KEEP_THRESHOLD * 100}
           \cup ({call.key} \ {NULL_KEY})
    /\ \A j \in DOMAIN call.result :
         /\ call.result[j] % 100 = 0
         /\ call.result[j] >= KEEP_THRESHOLD
         /\ call.result[j] * 100 - 5000 <= CompressedExactly(call.before, call.key, j)
         /\ CompressedExactly(call.before, call.key, j) < call.result[j] * 100 + 5000
    /\ call.after = call.before

\* a compression that drops a key, rounds the weight of another away from its
\* decayed value and adds the observation to it
C21_Witness ==
  /\ IsCompress
  /\ call.key \in DOMAIN call.before
  /\ \E j \in DOMAIN call.before : j \notin DOMAIN call.result
  /\ call.result[call.key] * 100 # CompressedExactly(call.before, call.key, call.key)

\* C26: a key that is not the new observation fades under compression. Its new
\* weight depends on its old weight alone, so it can fade to absence in finitely
\* many applications only if no application returns it with the weight it had.
C26_StaleKeyLosesWeight ==
  IsCompress =>
    \A k \in DOMAIN call.before \ {call.key} :
      k \in DOMAIN call.result => call.result[k] < call.before[k]

IsWindow == call.fn = "applyRollingWindow"

\* the histogram after n decays by 0.95
RECURSIVE DecayedTimes(_, _)
DecayedTimes(h, n) ==
  IF n <= 0 THEN h
  ELSE LET d == decayHistogram(<<h>>, 1, DECAY_FACTOR)
       IN DecayedTimes(d.heap[d.ref], n - 1)

\* C22: after any sequence of applyRollingWindow calls, each on the result of
\* the one before, the histogram has been decayed once for each whole day
\* between the first lastUpdated and the last call; and one call decays once
\* for each whole day since lastUpdated and sets lastUpdated to the time of
\* the call.
C22_DecayFollowsElapsedDays ==
  IsWindow =>
    /\ call.values
         = DecayedTimes(log[1].values, (call.now - log[1].lastUpdated) \div HOURS_PER_DAY)
    /\ call.values
         = DecayedTimes(call.beforeValues,
                        (call.now - call.before.lastUpdated) \div HOURS_PER_DAY)
    /\ call.result.lastUpdated = call.now

IsMigrate == call.fn = "migrateToCompressed"

\* the sum over all keys of min(raw[k], 100)
CappedTotal(raw) ==
  getHistogramTotal([k \in DOMAIN raw |-> Min(raw[k], maxValue)])

\* round(100 * c / s) for natural numbers c and s > 0, a half going up
RoundedShare(c, s) == (200 * c + s) \div (2 * s)

\* C23: migrateToCompressed(raw) maps each key k to
\* round(100 * min(raw[k], 100) / sum) where sum is the sum of the capped
\* counts, and to 0 when the sum is 0; every weight is a whole number from 0 to
\* 100, the keys are those of raw, and total is the sum of the weights.
C23_MigrateRoundsCappedShares ==
  IsMigrate =>
    /\ DOMAIN call.values = DOMAIN call.before
    /\ \A k \in DOMAIN call.values :
         /\ call.values[k] \in 0..100
         /\ call.values[k]
              = IF CappedTotal(call.before) = 0 THEN 0
                ELSE RoundedShare(Min(call.before[k], maxValue), CappedTotal(call.before))
    /\ call.result.total = getHistogramTotal(call.values)

\* C24: no function of the core reads the wall clock: two calls of the same
\* function on the same arguments return equal results, whatever the clock
\* shows at each call.
C24_SameArgumentsSameResult ==
  \A i, j \in DOMAIN log :
    log[i].fn = log[j].fn => log[i].result = log[j].result

\* C25: every change of an item's computed state follows the transition
\* table: when one step (an interaction, a quiet, a removal, an advance of
\* now) takes the state of an item from s to another state t, canTransition(s, t).
C25_StateChangesFollowTable ==
  [][\A i \in 1..Len(items) :
       i <= Len(items') =>
         LET s == stateOf(items[i], context)
             t == stateOf(items'[i], context')
         IN s # t => canTransition(s, t)]_vars

\* C27: reminders are rate limited: any two reminders of the surface are at least
\* AUDIO.REMINDER_INTERVAL_MS apart, also when the surface was unmounted and
\* mounted again between them; and the time in localStorage changes only when a
\* reminder plays, to the time of that reminder.
C27_RemindersAreRateLimited ==
  [][/\ \A i, j \in DOMAIN log' :
          i < j => log'[j].at - log'[i].at >= REMINDER_INTERVAL_MS
     /\ heap'.localStorage # heap.localStorage =>
          /\ Len(log') = Len(log) + 1
          /\ parseInt(heap'.localStorage[LAST_REMINDER]) = log'[Len(log')].at]_vars

\* a reminder played by the second mount of the surface, exactly the interval
\* after the one the first mount played
C27_Witness ==
  /\ Len(log) = 2
  /\ log[1].mount # log[2].mount
  /\ log[2].at - log[1].at = REMINDER_INTERVAL_MS
  /\ heap.localStorage[LAST_REMINDER] = numberToString(log[2].at)

\* C28: however toggleMusic interleaves with the completion of
\* loadAndPlayAmbient and its retries, at most one looping source plays and it
\* is the one in ambientSourceRef, and isMusicPlaying is true exactly when a
\* source plays.
C28_OneSourceAndItIsInTheRef ==
  /\ Cardinality(heap.playing) <= 1
  /\ heap.playing # {} => heap.playing = {heap.ambientSourceRef}
  /\ heap.isMusicPlaying <=> heap.playing # {}

\* C29: every call of loadAndPlayAmbient eventually stops scheduling work: from
\* some point on no call is in flight and no retry timer is pending, also when
\* the fetch fails and after the unmount.
C29_LoadingComesToRest == <>[](InFlight(heap) = 0)

IsGet == call.fn = "get"

\* C30: the two storage backends behave alike: get(key, fallback) returns the
\* fallback for a key that was never set and otherwise the value last set, for
\* every value JSON can represent, null, false, 0 and the empty string included.
C30_BackendsAgreeOnLastSet ==
  IsGet =>
    LET expected == IF call.key \in DOMAIN log THEN log[call.key] ELSE call.fallback
    IN /\ call.extension = expected
       /\ call.web = expected

====
